---- MODULE Spec2Model ----
(***************************************************************************)
(* screeps-cache: a single-slot, lazily filled, expiration-aware cache     *)
(* cell (src/src/lib.rs).  One slot, either an exclusive `&mut Option<T>`  *)
(* or a shared `&RefCell<Option<T>>`, and the accessors created over it.   *)
(* The program is single threaded: one get()/take() call runs at a time    *)
(* (`running`), and `pc` is its position inside the call chain             *)
(*   get/take -> into_known -> expire_with -> (maybe_)get_or_insert_with.  *)
(* The expiration predicate and the filler are FnOnce closures supplied by *)
(* the caller; what they return is chosen when they are invoked.           *)
(***************************************************************************)
EXTENDS Integers, Sequences, FiniteSets

\* ---- bounds of the model ----
NumAcc == 2          \* accessors (and handles they yielded) alive at the same time
MaxVal == 2          \* values of T are 1..MaxVal

Acc == 1..NumAcc
Values == 1..MaxVal
None == <<>>
Some(v) == <<v>>
OptionT == {None} \cup {Some(v) : v \in Values}

VARIABLES
    kind,      \* "mut": the slot is &mut Option<T>;  "refcell": &RefCell<Option<T>>
    cell,      \* the slot's content, an Option<T>
    rd,        \* RefCell: rd[a] = shared borrows (Ref) alive on behalf of accessor a
    wr,        \* RefCell: the accessor whose call holds the exclusive borrow (RefMut), 0 if none
    acc,       \* the accessors: state tag, flavour, resolved handle
    running,   \* the accessor whose get()/take() is executing, 0 if none
    op,        \* "get" or "take": the call that is executing
    pc,        \* position of the executing call
    tmp,       \* the filler's result, evaluated and not yet stored
    ref_val,   \* into_known's `ref_val`: what the fill step returned
    trap,      \* a panic was raised (RefCell borrow conflict, unwrap of None)
    ub,        \* an `unreachable_unchecked()` was executed
    hist       \* observations: callback invocations, slot snapshots, returned values

vars == <<kind, cell, rd, wr, acc, running, op, pc, tmp, ref_val, trap, ub, hist>>

\* ---- the accessor record ----
\* st:   "absent" (not constructed, or dropped), "Unknown", "Known",
\*       "taken" (consumed by take(); the handle lives on with the caller)
\* typ:  "total" (CacheAccesor) or "partial" (MaybeCacheAccesor)
\* data: the Known state's `data`: "unset", "Ref" (a handle on the slot's value:
\*       &T or Ref<T>) or "None" (MaybeCacheStateKnown.data = None)
CacheStateUnknown(t) == [st |-> "Unknown", typ |-> t, data |-> "unset"]

NoAccessor == [st |-> "absent", typ |-> "none", data |-> "unset"]

NoHistory == [log |-> <<>>, pre |-> <<>>, post |-> <<>>, rets |-> <<>>]

\* What a read through accessor a's resolved handle observes: a handle is a
\* reference into the slot, not a copy of the value.
Deref(a) == IF acc[a].data = "Ref" THEN cell ELSE None

\* What get()/take() hands to the caller: whether it is a handle (always, for
\* the total accessor; Some(handle) or None for the partial one) and the value
\* read through it.
ReturnValue(a) == [some |-> acc[a].data = "Ref", val |-> Deref(a)]

\* ---- std::cell::RefCell borrow flag ----
RECURSIVE SumTo(_, _)
SumTo(f, n) == IF n = 0 THEN 0 ELSE f[n] + SumTo(f, n - 1)

Readers == SumTo(rd, NumAcc)

\* RefCell::borrow() panics iff the cell is mutably borrowed.
CanBorrow == wr = 0

\* Faulty variant: borrow_mut() that does not look at the shared borrows.
CanBorrowMut_unchecked == wr = 0

\* RefCell::borrow_mut() panics iff the cell is borrowed at all.
CanBorrowMut == wr = 0 /\ Readers = 0

Live(a) == acc[a].st \in {"Unknown", "Known", "taken"}

Idle == running = 0 /\ ~trap /\ ~ub

At(a, p) == running = a /\ pc = p /\ ~trap /\ ~ub

Init ==
    /\ kind \in {"mut", "refcell"}
    /\ cell \in OptionT
    /\ rd = [a \in Acc |-> 0]
    /\ wr = 0
    /\ acc = [a \in Acc |-> NoAccessor]
    /\ running = 0
    /\ op = "none"
    /\ pc = "idle"
    /\ tmp = None
    /\ ref_val = "unset"
    /\ trap = FALSE
    /\ ub = FALSE
    /\ hist = [a \in {0} \cup Acc |-> NoHistory]

\* A new accessor takes the first free place.  A `&mut` slot is borrowed by
\* one accessor (or the handle it yielded) at a time.
CanConstruct(a) ==
    /\ Idle
    /\ acc[a].st = "absent"
    /\ \A b \in Acc : b < a => acc[b].st # "absent"
    /\ kind = "mut" => \A b \in Acc : ~Live(b)

\* Faulty variant: the constructor borrows the slot to look at it.
Access_borrowing(a) ==
    /\ CanConstruct(a)
    /\ acc' = [acc EXCEPT ![a] = CacheStateUnknown("total")]
    /\ rd' = [rd EXCEPT ![a] = 1]
    /\ UNCHANGED <<kind, cell, wr, running, op, pc, tmp, ref_val, trap, ub, hist>>

\* FastCacheAccessor::access
Access(a) ==
    /\ CanConstruct(a)
    /\ acc' = [acc EXCEPT ![a] = CacheStateUnknown("total")]
    /\ UNCHANGED <<kind, cell, rd, wr, running, op, pc, tmp, ref_val, trap, ub, hist>>

\* FastCacheMaybeAccessor::maybe_access
MaybeAccess(a) ==
    /\ CanConstruct(a)
    /\ acc' = [acc EXCEPT ![a] = CacheStateUnknown("partial")]
    /\ UNCHANGED <<kind, cell, rd, wr, running, op, pc, tmp, ref_val, trap, ub, hist>>

\* ---- observations ----
\* hist[a].log: the events of accessor a's resolutions, in order:
\*   "X" the predicate is invoked on v and answers b;  "take" the slot is cleared;
\*   "F" the filler is invoked and returns v;          "store" v is written.
\* Each event records the slot and the RefCell's borrows at that moment.
\* pre, post: the slot when a resolution starts and when it has built Known.
\* rets: what the first and the latest get()/take() on the accessor returned.
\* hist[0]: see Discarded.
Ev(a, e, v, b) ==
    [e |-> e, v |-> v, b |-> b, slot |-> cell,
     held |-> rd[a], excl |-> wr # 0]

Logged(a, f, es) == [hist EXCEPT ![a][f] = @ \o es]

FirstAndLatest(rets, r) == IF Len(rets) < 2 THEN Append(rets, r) ELSE <<rets[1], r>>

\* A panic: the call never returns.
Panic ==
    /\ trap' = TRUE
    /\ UNCHANGED <<kind, cell, rd, wr, acc, running, op, pc, tmp, ref_val, ub, hist>>

\* ---- CacheState::into_known / MaybeCacheState::into_known ----
\* Faulty variants: the Known arm resolves again.
IntoKnownArm_always(st) == "expire_with"

MaybeIntoKnownArm_always(st) == "expire_with"

\* match self { Unknown(state, _) => expire, fill, build Known;  v => v }
IntoKnownArm(st) == IF st = "Unknown" THEN "expire_with" ELSE "matched"

MaybeIntoKnownArm(st) == IF st = "Unknown" THEN "expire_with" ELSE "matched"

\* The Unknown arm: the call chain expire_with(..).get_or_insert_with(..) starts.
Resolve(a, o) ==
    /\ running' = a
    /\ op' = o
    /\ pc' = "expire_with"
    /\ hist' = Logged(a, "pre", <<cell>>)
    /\ UNCHANGED <<kind, cell, rd, wr, acc, tmp, ref_val, trap, ub>>

\* Faulty variant: the resolved handle is kept but the state stays Unknown.
IntoKnownBuild_unknown(a) ==
    /\ At(a, "yielded")
    /\ acc[a].typ = "total"
    /\ acc' = [acc EXCEPT ![a].data = ref_val]
    /\ hist' = Logged(a, "post", <<cell>>)
    /\ pc' = "matched"
    /\ ref_val' = "unset"
    /\ UNCHANGED <<kind, cell, rd, wr, running, op, tmp, trap, ub>>

\* CacheState::Known(CacheStateKnown { data: ref_val }), lines 169-173
IntoKnownBuild(a) ==
    /\ At(a, "yielded")
    /\ acc[a].typ = "total"
    /\ acc' = [acc EXCEPT ![a].st = "Known", ![a].data = ref_val]
    /\ hist' = Logged(a, "post", <<cell>>)
    /\ pc' = "matched"
    /\ ref_val' = "unset"
    /\ UNCHANGED <<kind, cell, rd, wr, running, op, tmp, trap, ub>>

\* MaybeCacheState::Known(MaybeCacheStateKnown { data: ref_val }), lines 233-237
MaybeIntoKnownBuild(a) ==
    /\ At(a, "yielded")
    /\ acc[a].typ = "partial"
    /\ acc' = [acc EXCEPT ![a].st = "Known", ![a].data = ref_val]
    /\ hist' = Logged(a, "post", <<cell>>)
    /\ pc' = "matched"
    /\ ref_val' = "unset"
    /\ UNCHANGED <<kind, cell, rd, wr, running, op, tmp, trap, ub>>

\* ---- the match after into_known, and the return ----
\* Reaching the Unknown arm executes unreachable_unchecked(): undefined behaviour.
Unreachable ==
    /\ ub' = TRUE
    /\ UNCHANGED <<kind, cell, rd, wr, acc, running, op, pc, tmp, ref_val, trap, hist>>

\* The call returns to the caller.
Return(a, o) ==
    /\ hist' = [hist EXCEPT ![a].rets =
                   FirstAndLatest(@, [op |-> o, some |-> ReturnValue(a).some,
                                      val |-> ReturnValue(a).val])]
    /\ running' = 0
    /\ op' = "none"
    /\ pc' = "idle"
    /\ UNCHANGED <<kind, cell, rd, wr, tmp, ref_val, trap, ub>>

\* CacheAccesor::get, lines 142-145: Known(s) => &s.data
GetMatch(a) ==
    IF acc[a].st = "Known"
    THEN Return(a, "get") /\ UNCHANGED acc
    ELSE Unreachable

\* Faulty variant: take() moves the value out of the slot, as Option::take does.
TakeMatch_removes(a) ==
    IF acc[a].st = "Known"
    THEN /\ hist' = [hist EXCEPT ![a].rets =
                        FirstAndLatest(@, [op |-> "take", some |-> ReturnValue(a).some,
                                           val |-> ReturnValue(a).val])]
         /\ acc' = [acc EXCEPT ![a].st = "taken"]
         /\ cell' = None
         /\ running' = 0
         /\ op' = "none"
         /\ pc' = "idle"
         /\ UNCHANGED <<kind, rd, wr, tmp, ref_val, trap, ub>>
    ELSE Unreachable

\* Faulty variant: take() hands out a copy of the value and releases the guard.
TakeMatch_owned(a) ==
    IF acc[a].st = "Known"
    THEN /\ hist' = [hist EXCEPT ![a].rets =
                        FirstAndLatest(@, [op |-> "take", some |-> ReturnValue(a).some,
                                           val |-> ReturnValue(a).val])]
         /\ acc' = [acc EXCEPT ![a].st = "taken"]
         /\ rd' = [rd EXCEPT ![a] = 0]
         /\ running' = 0
         /\ op' = "none"
         /\ pc' = "idle"
         /\ UNCHANGED <<kind, cell, wr, tmp, ref_val, trap, ub>>
    ELSE Unreachable

\* CacheAccesor::take, lines 149-152: Known(s) => s.data, the accessor is consumed
TakeMatch(a) ==
    IF acc[a].st = "Known"
    THEN Return(a, "take") /\ acc' = [acc EXCEPT ![a].st = "taken"]
    ELSE Unreachable

\* MaybeCacheAccesor::get, lines 206-209: Known(s) => s.data.as_ref()
MaybeGetMatch(a) ==
    IF acc[a].st = "Known"
    THEN Return(a, "get") /\ UNCHANGED acc
    ELSE Unreachable

\* MaybeCacheAccesor::take, lines 213-216: Known(s) => s.data
MaybeTakeMatch(a) ==
    IF acc[a].st = "Known"
    THEN Return(a, "take") /\ acc' = [acc EXCEPT ![a].st = "taken"]
    ELSE Unreachable

\* ---- Get::get / Get::take, MaybeGet::get / MaybeGet::take ----
\* A call on an accessor that is Known runs into_known's `v => v` arm and the
\* match in one step; on an Unknown one it starts the resolution, and the
\* match follows when the Known state is built.
CanCall(a, t) ==
    /\ Idle
    /\ acc[a].typ = t
    /\ acc[a].st \in {"Unknown", "Known"}

\* CacheAccesor::get
Get(a) ==
    /\ CanCall(a, "total")
    /\ IF IntoKnownArm(acc[a].st) = "expire_with" THEN Resolve(a, "get") ELSE GetMatch(a)

GetReturn(a) ==
    /\ At(a, "matched")
    /\ acc[a].typ = "total"
    /\ op = "get"
    /\ GetMatch(a)

\* Faulty variant: take() resolves without looking at the state.
Take_again(a) ==
    /\ CanCall(a, "total")
    /\ Resolve(a, "take")

\* CacheAccesor::take
Take(a) ==
    /\ CanCall(a, "total")
    /\ IF IntoKnownArm(acc[a].st) = "expire_with" THEN Resolve(a, "take") ELSE TakeMatch(a)

TakeReturn(a) ==
    /\ At(a, "matched")
    /\ acc[a].typ = "total"
    /\ op = "take"
    /\ TakeMatch(a)

\* MaybeCacheAccesor::get
MaybeGet(a) ==
    /\ CanCall(a, "partial")
    /\ IF MaybeIntoKnownArm(acc[a].st) = "expire_with"
       THEN Resolve(a, "get")
       ELSE MaybeGetMatch(a)

MaybeGetReturn(a) ==
    /\ At(a, "matched")
    /\ acc[a].typ = "partial"
    /\ op = "get"
    /\ MaybeGetMatch(a)

\* MaybeCacheAccesor::take
MaybeTake(a) ==
    /\ CanCall(a, "partial")
    /\ IF MaybeIntoKnownArm(acc[a].st) = "expire_with"
       THEN Resolve(a, "take")
       ELSE MaybeTakeMatch(a)

MaybeTakeReturn(a) ==
    /\ At(a, "matched")
    /\ acc[a].typ = "partial"
    /\ op = "take"
    /\ MaybeTakeMatch(a)

\* ---- the expiration predicate ----
\* `as_ref().map(expiration).unwrap_or(false)`: the predicate is invoked on the
\* stored value, if there is one; b is what it answers.
\* Faulty variant: the predicate is invoked on an empty slot too.
ExpirationCalled_always(c) == TRUE

ExpirationCalled(c) == c # None

\* Faulty variants: the predicate's answer negated; every stored value expired.
ExpirationResult_negated(c, b) == ExpirationCalled(c) /\ ~b

ExpirationResult_always(c, b) == ExpirationCalled(c)

ExpirationResult(c, b) == ExpirationCalled(c) /\ b

XEvent(a, c, b) == IF ExpirationCalled(c) THEN <<Ev(a, "X", c, b)>> ELSE <<>>

\* ---- impl FastCacheExpiration<T> for &mut Option<T> ----
ExpireWithMut(a) ==
    /\ At(a, "expire_with")
    /\ kind = "mut"
    /\ \E b \in BOOLEAN :
        IF ExpirationResult(cell, b)
        THEN /\ cell' = None
             /\ hist' = Logged(a, "log", XEvent(a, cell, b) \o <<Ev(a, "take", None, FALSE)>>)
        ELSE /\ cell' = cell
             /\ hist' = Logged(a, "log", XEvent(a, cell, b))
    /\ pc' = "fill"
    /\ UNCHANGED <<kind, rd, wr, acc, running, op, tmp, ref_val, trap, ub>>

\* ---- impl FastCacheGet for &mut Option<T> ----
\* Option::get_or_insert_with(f): the filler is invoked only on None.
\* Faulty variant: the emptiness test inverted.
FillerNeeded_inverted(c) == c # None

FillerNeeded(c) == c = None

GetOrInsertWithMut(a) ==
    /\ At(a, "fill")
    /\ kind = "mut"
    /\ acc[a].typ = "total"
    /\ \E v \in Values :
        IF FillerNeeded(cell)
        THEN /\ cell' = Some(v)
             /\ hist' = Logged(a, "log", <<Ev(a, "F", Some(v), FALSE),
                                           Ev(a, "store", Some(v), FALSE)>>)
        ELSE UNCHANGED <<cell, hist>>
    /\ ref_val' = "Ref"
    /\ pc' = "yielded"
    /\ UNCHANGED <<kind, rd, wr, acc, running, op, tmp, trap, ub>>

\* ---- impl FastCacheMaybeGet for &mut Option<T> ----
\* line 40, `self.is_none()`
\* Faulty variant: the filler is invoked whether or not the slot holds a value.
MaybeFillerNeeded_always(c) == TRUE

MaybeFillerNeeded(c) == c = None

\* line 44, `self.as_ref()`: Some(&T) or None
AsRef(c) == IF c = None THEN "None" ELSE "Ref"

MaybeGetOrInsertWithMut(a) ==
    /\ At(a, "fill")
    /\ kind = "mut"
    /\ acc[a].typ = "partial"
    /\ \E o \in OptionT :
        IF MaybeFillerNeeded(cell)
        THEN /\ cell' = o
             /\ hist' = Logged(a, "log", <<Ev(a, "F", o, FALSE), Ev(a, "store", o, FALSE)>>)
        ELSE UNCHANGED <<cell, hist>>
    /\ ref_val' = AsRef(cell')
    /\ pc' = "yielded"
    /\ UNCHANGED <<kind, rd, wr, acc, running, op, tmp, trap, ub>>

\* ---- impl FastCacheExpiration<T> for &RefCell<Option<T>> ----
\* line 55, `self.borrow()`: a temporary Ref, alive while the predicate runs
RefExpireBorrow(a) ==
    /\ At(a, "expire_with")
    /\ kind = "refcell"
    /\ IF CanBorrow
       THEN /\ rd' = [rd EXCEPT ![a] = @ + 1]
            /\ pc' = "expire_map"
            /\ UNCHANGED <<kind, cell, wr, acc, running, op, tmp, ref_val, trap, ub, hist>>
       ELSE Panic

\* Where expire_with goes after its condition: the `if` body or the end.
\* Faulty variant: the `if` body runs whatever the predicate answers.
RefExpireBranch_always(c, b) == "expire_borrow_mut"

RefExpireBranch(c, b) == IF ExpirationResult(c, b) THEN "expire_borrow_mut" ELSE "fill"

\* line 55, `.as_ref().map(expiration).unwrap_or(false)`; the temporary Ref is
\* dropped at the end of the condition
RefExpireMap(a) ==
    /\ At(a, "expire_map")
    /\ \E b \in BOOLEAN :
        /\ hist' = Logged(a, "log", XEvent(a, cell, b))
        /\ pc' = RefExpireBranch(cell, b)
    /\ rd' = [rd EXCEPT ![a] = @ - 1]
    /\ UNCHANGED <<kind, cell, wr, acc, running, op, tmp, ref_val, trap, ub>>

\* Faulty variant: try_borrow_mut(), and the clearing is skipped when it fails.
RefExpireBorrowMut_try(a) ==
    /\ At(a, "expire_borrow_mut")
    /\ IF CanBorrowMut
       THEN /\ wr' = a
            /\ pc' = "expire_take"
            /\ UNCHANGED <<kind, cell, rd, acc, running, op, tmp, ref_val, trap, ub, hist>>
       ELSE /\ pc' = "fill"
            /\ UNCHANGED <<kind, cell, rd, wr, acc, running, op, tmp, ref_val, trap, ub, hist>>

\* line 56, `self.borrow_mut()`
RefExpireBorrowMut(a) ==
    /\ At(a, "expire_borrow_mut")
    /\ IF CanBorrowMut
       THEN /\ wr' = a
            /\ pc' = "expire_take"
            /\ UNCHANGED <<kind, cell, rd, acc, running, op, tmp, ref_val, trap, ub, hist>>
       ELSE Panic

\* line 56, `.take()`; the RefMut is dropped at the end of the statement
RefExpireTake(a) ==
    /\ At(a, "expire_take")
    /\ cell' = None
    /\ hist' = Logged(a, "log", <<Ev(a, "take", None, FALSE)>>)
    /\ wr' = 0
    /\ pc' = "fill"
    /\ UNCHANGED <<kind, rd, acc, running, op, tmp, ref_val, trap, ub>>

\* ---- impl FastCacheGet for &RefCell<Option<T>> ----
\* Faulty variant: the filler is invoked whether or not the slot holds a value.
RefGetBranch_always(c) == "fill_call"

RefGetBranch(c) == IF c = None THEN "fill_call" ELSE "yield"

\* Faulty variant: the Ref of the emptiness check is bound to a variable and
\* lives through the `if` body.
RefGetIsNone_holding(a) ==
    /\ At(a, "fill")
    /\ kind = "refcell"
    /\ acc[a].typ = "total"
    /\ IF CanBorrow
       THEN /\ pc' = RefGetBranch(cell)
            /\ rd' = [rd EXCEPT ![a] = @ + 1]
            /\ UNCHANGED <<kind, cell, wr, acc, running, op, tmp, ref_val, trap, ub, hist>>
       ELSE Panic

\* line 65, `if self.borrow().is_none()`
RefGetIsNone(a) ==
    /\ At(a, "fill")
    /\ kind = "refcell"
    /\ acc[a].typ = "total"
    /\ IF CanBorrow
       THEN /\ pc' = RefGetBranch(cell)
            /\ UNCHANGED <<kind, cell, rd, wr, acc, running, op, tmp, ref_val, trap, ub, hist>>
       ELSE Panic

\* The filler may itself read the slot (reads): that is a RefCell::borrow().
FillerPanics(reads) == reads /\ ~CanBorrow

\* line 66, `Some(f())`: the assigned value is evaluated before the assignee
RefGetFillCall(a) ==
    /\ At(a, "fill_call")
    /\ acc[a].typ = "total"
    /\ \E v \in Values, reads \in BOOLEAN :
        /\ tmp' = Some(v)
        /\ hist' = Logged(a, "log", <<Ev(a, "F", Some(v), FALSE)>>)
        /\ trap' = FillerPanics(reads)
    /\ pc' = "fill_borrow_mut"
    /\ UNCHANGED <<kind, cell, rd, wr, acc, running, op, ref_val, ub>>

\* line 66, `self.borrow_mut()`
RefGetBorrowMut(a) ==
    /\ At(a, "fill_borrow_mut")
    /\ acc[a].typ = "total"
    /\ IF CanBorrowMut
       THEN /\ wr' = a
            /\ pc' = "fill_store"
            /\ UNCHANGED <<kind, cell, rd, acc, running, op, tmp, ref_val, trap, ub, hist>>
       ELSE Panic

\* Faulty variant: the RefMut is kept until the function returns.
RefGetStore_holding(a) ==
    /\ At(a, "fill_store")
    /\ acc[a].typ = "total"
    /\ cell' = tmp
    /\ hist' = Logged(a, "log", <<Ev(a, "store", tmp, FALSE)>>)
    /\ tmp' = None
    /\ pc' = "yield"
    /\ UNCHANGED <<kind, rd, wr, acc, running, op, ref_val, trap, ub>>

\* line 66, the assignment through the RefMut, which is then dropped
RefGetStore(a) ==
    /\ At(a, "fill_store")
    /\ acc[a].typ = "total"
    /\ cell' = tmp
    /\ hist' = Logged(a, "log", <<Ev(a, "store", tmp, FALSE)>>)
    /\ tmp' = None
    /\ wr' = 0
    /\ pc' = "yield"
    /\ UNCHANGED <<kind, rd, acc, running, op, ref_val, trap, ub>>

\* line 69, `Ref::map(self.borrow(), |v| v.as_ref().unwrap())`
RefGetYield(a) ==
    /\ At(a, "yield")
    /\ acc[a].typ = "total"
    /\ IF CanBorrow /\ cell # None
       THEN /\ rd' = [rd EXCEPT ![a] = @ + 1]
            /\ ref_val' = "Ref"
            /\ pc' = "yielded"
            /\ UNCHANGED <<kind, cell, wr, acc, running, op, tmp, trap, ub, hist>>
       ELSE Panic

\* ---- impl FastCacheMaybeGet for &RefCell<Option<T>> ----
\* Faulty variant: the filler is never invoked.
RefMaybeBranch_never(c) == "yield"

RefMaybeBranch(c) == IF c = None THEN "fill_call" ELSE "yield"

\* line 75, `if self.borrow().is_none()`
RefMaybeIsNone(a) ==
    /\ At(a, "fill")
    /\ kind = "refcell"
    /\ acc[a].typ = "partial"
    /\ IF CanBorrow
       THEN /\ pc' = RefMaybeBranch(cell)
            /\ UNCHANGED <<kind, cell, rd, wr, acc, running, op, tmp, ref_val, trap, ub, hist>>
       ELSE Panic

\* line 76, `(f)()`: evaluated before the assignee
RefMaybeFillCall(a) ==
    /\ At(a, "fill_call")
    /\ acc[a].typ = "partial"
    /\ \E o \in OptionT, reads \in BOOLEAN :
        /\ tmp' = o
        /\ hist' = Logged(a, "log", <<Ev(a, "F", o, FALSE)>>)
        /\ trap' = FillerPanics(reads)
    /\ pc' = "fill_borrow_mut"
    /\ UNCHANGED <<kind, cell, rd, wr, acc, running, op, ref_val, ub>>

\* line 76, `self.borrow_mut()`
RefMaybeBorrowMut(a) ==
    /\ At(a, "fill_borrow_mut")
    /\ acc[a].typ = "partial"
    /\ IF CanBorrowMut
       THEN /\ wr' = a
            /\ pc' = "fill_store"
            /\ UNCHANGED <<kind, cell, rd, acc, running, op, tmp, ref_val, trap, ub, hist>>
       ELSE Panic

\* line 76, the assignment through the RefMut, which is then dropped
RefMaybeStore(a) ==
    /\ At(a, "fill_store")
    /\ acc[a].typ = "partial"
    /\ cell' = tmp
    /\ hist' = Logged(a, "log", <<Ev(a, "store", tmp, FALSE)>>)
    /\ tmp' = None
    /\ wr' = 0
    /\ pc' = "yield"
    /\ UNCHANGED <<kind, rd, acc, running, op, ref_val, trap, ub>>

\* lines 79-83: Some(Ref::map(..)) if `self.borrow().is_some()`, else None
RefMaybeResult(c) == IF c # None THEN "Ref" ELSE "None"

\* Faulty variant: the Ref of the is_some() check of line 79 is kept either way.
RefMaybeYield_holding(a) ==
    /\ At(a, "yield")
    /\ acc[a].typ = "partial"
    /\ IF CanBorrow
       THEN /\ ref_val' = RefMaybeResult(cell)
            /\ rd' = [rd EXCEPT ![a] = @ + 1]
            /\ pc' = "yielded"
            /\ UNCHANGED <<kind, cell, wr, acc, running, op, tmp, trap, ub, hist>>
       ELSE Panic

RefMaybeYield(a) ==
    /\ At(a, "yield")
    /\ acc[a].typ = "partial"
    /\ IF CanBorrow
       THEN /\ ref_val' = RefMaybeResult(cell)
            /\ rd' = [rd EXCEPT ![a] = IF ref_val' = "Ref" THEN @ + 1 ELSE @]
            /\ pc' = "yielded"
            /\ UNCHANGED <<kind, cell, wr, acc, running, op, tmp, trap, ub, hist>>
       ELSE Panic

\* ---- end of an accessor's or a handle's life ----
\* hist[0]: on the exclusive slot accessors follow one another, and the
\* observations of the one discarded last are kept for its successor.
Discarded(a) == IF kind = "mut" THEN hist[a] ELSE hist[0]

\* The accessor goes out of scope; a Known state drops the Ref it holds.
DropAccessor(a) ==
    /\ Idle
    /\ acc[a].st \in {"Unknown", "Known"}
    /\ acc' = [acc EXCEPT ![a] = NoAccessor]
    /\ hist' = [hist EXCEPT ![a] = NoHistory, ![0] = Discarded(a)]
    /\ rd' = [rd EXCEPT ![a] = 0]
    /\ UNCHANGED <<kind, cell, wr, running, op, pc, tmp, ref_val, trap, ub>>

\* The caller drops what take() returned (a &T, a Ref<T>, or an Option of one).
DropHandle(a) ==
    /\ Idle
    /\ acc[a].st = "taken"
    /\ acc' = [acc EXCEPT ![a] = NoAccessor]
    /\ hist' = [hist EXCEPT ![a] = NoHistory, ![0] = Discarded(a)]
    /\ rd' = [rd EXCEPT ![a] = 0]
    /\ UNCHANGED <<kind, cell, wr, running, op, pc, tmp, ref_val, trap, ub>>

Next ==
    \E a \in Acc :
        \/ Access(a)
        \/ MaybeAccess(a)
        \/ Get(a)
        \/ Take(a)
        \/ MaybeGet(a)
        \/ MaybeTake(a)
        \/ ExpireWithMut(a)
        \/ GetOrInsertWithMut(a)
        \/ MaybeGetOrInsertWithMut(a)
        \/ RefExpireBorrow(a)
        \/ RefExpireMap(a)
        \/ RefExpireBorrowMut(a)
        \/ RefExpireTake(a)
        \/ RefGetIsNone(a)
        \/ RefGetFillCall(a)
        \/ RefGetBorrowMut(a)
        \/ RefGetStore(a)
        \/ RefGetYield(a)
        \/ RefMaybeIsNone(a)
        \/ RefMaybeFillCall(a)
        \/ RefMaybeBorrowMut(a)
        \/ RefMaybeStore(a)
        \/ RefMaybeYield(a)
        \/ IntoKnownBuild(a)
        \/ MaybeIntoKnownBuild(a)
        \/ GetReturn(a)
        \/ TakeReturn(a)
        \/ MaybeGetReturn(a)
        \/ MaybeTakeReturn(a)
        \/ DropAccessor(a)
        \/ DropHandle(a)

Spec == Init /\ [][Next]_vars
\* ======================= properties =======================
IsX(x) == x.e = "X"
IsF(x) == x.e = "F"
IsTake(x) == x.e = "take"
IsStore(x) == x.e = "store"

\* The predicate's and the filler's invocations made for accessor a.
XCalls(a) == SelectSeq(hist[a].log, IsX)
FCalls(a) == SelectSeq(hist[a].log, IsF)

\* The kinds of a's events, in order.
Trace(a) == [i \in 1..Len(hist[a].log) |-> hist[a].log[i].e]

\* a's first get()/take() has returned, and it was a call of `o`.
FirstWas(a, o) == hist[a].rets # <<>> /\ hist[a].rets[1].op = o

\* The slot held a value when a's resolution started.
PreSome(a) == Len(hist[a].pre) = 1 /\ hist[a].pre[1] # None

\* The predicate was invoked exactly once, on the value the slot held.
AskedOnce(a) == Len(XCalls(a)) = 1 /\ XCalls(a)[1].v = hist[a].pre[1]

\* C1: total fill, slot empty.  For the exclusive and the shared slot alike,
\* when the first get() on access(S,P,F) finds S empty, the predicate is not
\* invoked, the filler is invoked exactly once, the returned handle reads the
\* filler's result, and the slot is left non-empty, holding that result.
C1_TotalFillEmpty ==
    \A a \in Acc :
        (acc[a].typ = "total" /\ FirstWas(a, "get") /\ hist[a].pre = <<None>>) =>
            /\ Trace(a) = <<"F", "store">>
            /\ hist[a].log[1].slot = None
            /\ hist[a].rets[1].some
            /\ hist[a].rets[1].val = hist[a].log[1].v
            /\ hist[a].log[2].v = hist[a].log[1].v
            /\ hist[a].post = <<hist[a].log[1].v>>
            /\ hist[a].post[1] # None

C1_Witness ==
    \E a \in Acc :
        /\ kind = "refcell"
        /\ acc[a].typ = "total"
        /\ FirstWas(a, "get")
        /\ hist[a].pre = <<None>>
        /\ hist[a].rets[1].val = Some(2)
        /\ cell = Some(2)

\* C2: total fill, expired value.  When S holds V, the first get() on
\* access(S,P,F) asks P exactly once, about V; if P answers true the slot is
\* cleared first, then F is invoked exactly once (finding the slot empty), the
\* returned handle reads F's result, and the slot afterwards holds F's result.
C2_TotalFillExpired ==
    \A a \in Acc :
        (acc[a].typ = "total" /\ FirstWas(a, "get") /\ PreSome(a)) =>
            /\ AskedOnce(a)
            /\ XCalls(a)[1].b =>
                /\ Trace(a) = <<"X", "take", "F", "store">>
                /\ hist[a].log[3].slot = None
                /\ hist[a].log[4].v = hist[a].log[3].v
                /\ hist[a].rets[1].some
                /\ hist[a].rets[1].val = hist[a].log[3].v
                /\ hist[a].post = <<hist[a].log[3].v>>

\* The spec's scenario, scaled: the shared slot holds 1, the predicate answers
\* true for it, the filler returns 2, and get() reads 2.
C2_Witness ==
    \E a \in Acc :
        /\ kind = "refcell"
        /\ acc[a].typ = "total"
        /\ FirstWas(a, "get")
        /\ hist[a].pre = <<Some(1)>>
        /\ Trace(a) = <<"X", "take", "F", "store">>
        /\ hist[a].rets[1].val = Some(2)
        /\ cell = Some(2)

\* C3: total fill, fresh value.  When S holds V and P answers false for V, the
\* first get() on access(S,P,F) never invokes F, writes nothing to the slot,
\* returns a handle that reads V, and leaves the slot holding V.
C3_TotalFillFresh ==
    \A a \in Acc :
        (acc[a].typ = "total" /\ FirstWas(a, "get") /\ PreSome(a)) =>
            /\ AskedOnce(a)
            /\ ~XCalls(a)[1].b =>
                /\ Trace(a) = <<"X">>
                /\ hist[a].rets[1].some
                /\ hist[a].rets[1].val = hist[a].pre[1]
                /\ hist[a].post = hist[a].pre

C3_Witness ==
    \E a \in Acc :
        /\ kind = "mut"
        /\ acc[a].typ = "total"
        /\ FirstWas(a, "get")
        /\ hist[a].pre = <<Some(2)>>
        /\ Trace(a) = <<"X">>
        /\ ~hist[a].log[1].b
        /\ hist[a].rets[1].val = Some(2)
        /\ cell = Some(2)

\* C4: repeated get() is idempotent.  On any accessor, total or partial, the
\* resolution runs at most once however many get() calls are made: the
\* predicate, the filler, the clearing and the storing each happen at most
\* once, and every get() returns what the first get() returned.
C4_RepeatedGet ==
    \A a \in Acc :
        /\ Len(hist[a].pre) <= 1
        /\ Len(hist[a].post) <= 1
        /\ Len(XCalls(a)) <= 1
        /\ Len(FCalls(a)) <= 1
        /\ Len(SelectSeq(hist[a].log, IsTake)) <= 1
        /\ Len(SelectSeq(hist[a].log, IsStore)) <= 1
        /\ \A i \in 1..Len(hist[a].rets) :
            (hist[a].rets[1].op = "get" /\ hist[a].rets[i].op = "get") =>
                /\ hist[a].rets[i].some = hist[a].rets[1].some
                /\ hist[a].rets[i].val = hist[a].rets[1].val

C4_Witness ==
    \E a \in Acc :
        /\ acc[a].typ = "total"
        /\ Len(hist[a].rets) = 2
        /\ hist[a].rets[1].op = "get"
        /\ hist[a].rets[2].op = "get"
        /\ Trace(a) = <<"X", "take", "F", "store">>
        /\ Idle
\* What a's resolution leaves in the slot, from what it found there and what
\* the callbacks answered: the value found if the predicate kept it, else the
\* filler's result.
Resolved(a) ==
    IF PreSome(a) /\ XCalls(a) # <<>> /\ ~XCalls(a)[1].b
    THEN hist[a].pre[1]
    ELSE IF FCalls(a) # <<>> THEN FCalls(a)[1].v ELSE None

\* What the callbacks answered a, in order.
Answers(a) ==
    [i \in 1..Len(hist[a].log) |->
        [e |-> hist[a].log[i].e, v |-> hist[a].log[i].v, b |-> hist[a].log[i].b]]

\* C5: take() resolves as get() does.  When take() reaches its match, and when
\* any first call (get or take) has returned, exactly one resolution has run:
\* one expire step (the predicate asked iff the slot held a value) and one fill
\* step (the filler invoked iff the slot was then empty).  The value returned
\* and the slot's final content are the same function of the slot's initial
\* content and the callbacks' answers whether the first call was get() or
\* take(); two accessors of one flavour with equal inputs, one resolved by get()
\* and one by take(), agree.  A take() after get() calls returns what they
\* returned.
C5_TakeAsGet ==
    /\ \A a \in Acc :
        (running = a /\ op = "take" /\ pc = "matched") =>
            Len(hist[a].pre) = 1 /\ Len(hist[a].post) = 1
    /\ \A a \in Acc :
        hist[a].rets # <<>> =>
            /\ Len(hist[a].pre) = 1
            /\ Len(hist[a].post) = 1
            /\ Len(XCalls(a)) = (IF hist[a].pre[1] # None THEN 1 ELSE 0)
            /\ Len(FCalls(a)) =
                 (IF PreSome(a) /\ XCalls(a) # <<>> /\ ~XCalls(a)[1].b THEN 0 ELSE 1)
            /\ hist[a].post[1] = Resolved(a)
            /\ hist[a].rets[1].val = Resolved(a)
            /\ \A i \in 1..Len(hist[a].rets) :
                /\ hist[a].rets[i].val = hist[a].rets[1].val
                /\ hist[a].rets[i].some = hist[a].rets[1].some
    /\ \A a, b \in Acc :
        (/\ FirstWas(a, "get")
         /\ FirstWas(b, "take")
         /\ acc[a].typ = acc[b].typ
         /\ hist[a].pre = hist[b].pre
         /\ Answers(a) = Answers(b)) =>
            /\ hist[a].rets[1].val = hist[b].rets[1].val
            /\ hist[a].rets[1].some = hist[b].rets[1].some
            /\ hist[a].post = hist[b].post

\* The spec's scenario, scaled: an empty exclusive slot, the filler returns 2,
\* and take() on a fresh accessor yields 2 after one filler invocation.
C5_Witness ==
    \E a \in Acc :
        /\ kind = "mut"
        /\ acc[a].typ = "total"
        /\ acc[a].st = "taken"
        /\ hist[a].rets = <<[op |-> "take", some |-> TRUE, val |-> Some(2)]>>
        /\ hist[a].pre = <<None>>
        /\ Len(FCalls(a)) = 1

\* C6: partial fill, absence.  Whenever the partial filler is invoked it finds
\* the slot empty; if it returns None, no panic follows, every get()/take() on
\* the accessor returns None, the slot is empty when the resolution ends, and
\* the filler is not invoked a second time.
C6_PartialAbsence ==
    \A a \in Acc :
        (acc[a].typ = "partial" /\ FCalls(a) # <<>>) =>
            /\ FCalls(a)[1].slot = None
            /\ FCalls(a)[1].v = None =>
                /\ Len(FCalls(a)) = 1
                /\ ~(trap /\ running = a)
                /\ \A i \in 1..Len(hist[a].rets) :
                    ~hist[a].rets[i].some /\ hist[a].rets[i].val = None
                /\ \A i \in 1..Len(hist[a].post) : hist[a].post[i] = None

C6_Witness ==
    \E a \in Acc :
        /\ kind = "refcell"
        /\ acc[a].typ = "partial"
        /\ Len(hist[a].rets) = 2
        /\ hist[a].rets[1].op = "get"
        /\ hist[a].rets[2].op = "get"
        /\ Trace(a) = <<"X", "take", "F", "store">>
        /\ hist[a].log[3].v = None
        /\ cell = None

\* C7: the partial fill's result matches the slot.  When a partial accessor's
\* first call returns, the result is Some(handle) exactly when the slot holds a
\* value at the end of the resolution, and the handle reads the slot's content.
\* With the slot empty at the start the filler is invoked, and if it returns
\* Some(V) the result is Some(V) and the slot holds V; with the slot holding a
\* V the predicate keeps, the result is Some(V) and the filler is not invoked.
C7_PartialResult ==
    \A a \in Acc :
        (acc[a].typ = "partial" /\ hist[a].rets # <<>>) =>
            /\ Len(hist[a].post) = 1
            /\ hist[a].rets[1].some <=> hist[a].post[1] # None
            /\ hist[a].rets[1].val = hist[a].post[1]
            /\ hist[a].pre = <<None>> =>
                /\ Len(FCalls(a)) = 1
                /\ hist[a].post[1] = FCalls(a)[1].v
            /\ PreSome(a) =>
                /\ AskedOnce(a)
                /\ ~XCalls(a)[1].b =>
                    /\ FCalls(a) = <<>>
                    /\ hist[a].rets[1].some
                    /\ hist[a].rets[1].val = hist[a].pre[1]

C7_Witness ==
    \E a \in Acc :
        /\ kind = "mut"
        /\ acc[a].typ = "partial"
        /\ FirstWas(a, "get")
        /\ hist[a].pre = <<None>>
        /\ Trace(a) = <<"F", "store">>
        /\ hist[a].rets[1] = [op |-> "get", some |-> TRUE, val |-> Some(1)]
        /\ cell = Some(1)

\* C8: at-most-once invocation.  Over any sequence of get() calls and a final
\* take() on one accessor the predicate is invoked at most once and the filler
\* at most once, and the filler is only ever invoked on an empty slot.
C8_AtMostOnce ==
    \A a \in Acc :
        /\ Len(XCalls(a)) <= 1
        /\ Len(FCalls(a)) <= 1
        /\ \A i \in 1..Len(hist[a].log) :
            hist[a].log[i].e = "F" => hist[a].log[i].slot = None

C8_Witness ==
    \E a \in Acc :
        /\ kind = "refcell"
        /\ acc[a].st = "taken"
        /\ Len(hist[a].rets) = 2
        /\ hist[a].rets[1].op = "get"
        /\ hist[a].rets[2].op = "take"
        /\ Len(XCalls(a)) = 1
        /\ Len(FCalls(a)) = 1

\* Shared borrows of the slot held on behalf of accessors other than a.
OtherReaders(a) == Readers - rd[a]

\* C9: a borrow conflict on the shared slot is fatal.  When a resolution is
\* about to borrow the slot mutably (to clear an expired value or to store the
\* filler's result) while another accessor's read guard is outstanding, its
\* next step is a panic that changes neither the slot nor any guard; a panic
\* is raised only inside a resolution that has returned nothing, and nothing
\* runs after it.
C9_BorrowConflictTraps ==
    [][/\ ~trap
       /\ trap' => /\ running' \in Acc
                   /\ acc'[running'].st = "Unknown"
                   /\ hist'[running'].rets = <<>>
       /\ \A a \in Acc :
            (/\ kind = "refcell"
             /\ running = a
             /\ pc \in {"expire_borrow_mut", "fill_borrow_mut"}
             /\ OtherReaders(a) > 0) =>
                /\ trap'
                /\ cell' = cell
                /\ rd' = rd
                /\ wr' = wr
                /\ acc' = acc
                /\ hist' = hist]_vars

C9_Witness ==
    /\ trap
    /\ kind = "refcell"
    /\ pc = "expire_borrow_mut"
    /\ \E b \in Acc :
        /\ b # running
        /\ acc[b].st = "Known"
        /\ rd[b] = 1
        /\ Deref(b) = cell
        /\ cell # None

\* C10: the shared slot admits several readers.  On the shared slot, a
\* resolution that finds a value the predicate keeps never panics, whatever
\* guards other accessors hold: it invokes no filler, writes nothing, returns
\* a handle that reads that value, and holds exactly one shared borrow.
C10_ManyReaders ==
    \A a \in Acc :
        (kind = "refcell" /\ PreSome(a) /\ XCalls(a) # <<>> /\ ~XCalls(a)[1].b) =>
            /\ ~(trap /\ running = a)
            /\ Trace(a) = <<"X">>
            /\ hist[a].post # <<>> =>
                /\ rd[a] = 1
                /\ wr = 0
                /\ Deref(a) = hist[a].pre[1]
            /\ hist[a].rets # <<>> =>
                /\ hist[a].rets[1].some
                /\ hist[a].rets[1].val = hist[a].pre[1]

\* Every accessor the model has room for holds a read guard at the same time.
C10_Witness ==
    /\ kind = "refcell"
    /\ Idle
    /\ \A a \in Acc :
        /\ rd[a] = 1
        /\ hist[a].rets # <<>>
        /\ Trace(a) = <<"X">>
        /\ Deref(a) = cell
    /\ \E a \in Acc : acc[a].typ = "total"
    /\ \E a \in Acc : acc[a].typ = "partial"

\* Accessor a is resolved to a handle on a value.
HoldsHandle(a) == acc[a].data = "Ref" /\ hist[a].post # <<>>

\* C11: value stability under a resolved accessor.  From the moment an
\* accessor is resolved to a handle on V until the accessor and the handle are
\* discarded, the slot holds V, a read through the handle observes V, every
\* get()/take() on the accessor has returned V, and no step of any accessor
\* changes the slot; on the shared slot the accessor's read guard is held and
\* nobody holds the exclusive borrow, on the exclusive slot no other accessor
\* exists.
C11_ValueStability ==
    /\ [](\A a \in Acc :
            HoldsHandle(a) =>
                /\ Len(hist[a].post) = 1
                /\ hist[a].post[1] # None
                /\ cell = hist[a].post[1]
                /\ Deref(a) = hist[a].post[1]
                /\ \A i \in 1..Len(hist[a].rets) :
                    hist[a].rets[i].some /\ hist[a].rets[i].val = hist[a].post[1]
                /\ kind = "refcell" => rd[a] = 1 /\ wr = 0
                /\ kind = "mut" => \A b \in Acc \ {a} : ~Live(b))
    /\ [][\A a \in Acc : HoldsHandle(a) => cell' = cell]_vars

\* A second accessor tried to clear the value a first one holds a handle on,
\* and panicked; the first one has read 2 twice and the slot still holds 2.
C11_Witness ==
    \E a, b \in Acc :
        /\ kind = "refcell"
        /\ HoldsHandle(a)
        /\ Len(hist[a].rets) = 2
        /\ hist[a].rets[2].val = Some(2)
        /\ cell = Some(2)
        /\ running = b
        /\ trap
        /\ XCalls(b) # <<>>
        /\ XCalls(b)[1].b

\* C12: the filled value persists across accessors.  On the exclusive slot,
\* take() leaves in the slot the value it returns; the next accessor starts
\* its resolution from what the previous accessor's resolution left, and if
\* its predicate answers false for that value it invokes no filler and
\* returns that value.
C12_PersistsAcrossAccessors ==
    \A a \in Acc :
        /\ (kind = "mut" /\ acc[a].st = "taken" /\ acc[a].data = "Ref") =>
            /\ cell # None
            /\ cell = hist[a].rets[Len(hist[a].rets)].val
        /\ (kind = "mut" /\ hist[0].rets # <<>> /\ hist[a].pre # <<>>) =>
            /\ hist[a].pre = hist[0].post
            /\ (hist[a].rets # <<>> /\ XCalls(a) # <<>> /\ ~XCalls(a)[1].b) =>
                /\ FCalls(a) = <<>>
                /\ hist[a].rets[1].some
                /\ hist[a].rets[1].val = hist[0].post[1]

\* The spec's scenario: the first accessor found the exclusive slot empty,
\* filled it with 1 and was consumed by take(); the second one's predicate
\* answers false and it returns 1 without invoking its filler.
C12_Witness ==
    \E a \in Acc :
        /\ kind = "mut"
        /\ hist[0].pre = <<None>>
        /\ Trace(0) = <<"F", "store">>
        /\ hist[0].rets = <<[op |-> "take", some |-> TRUE, val |-> Some(1)]>>
        /\ acc[a].typ = "total"
        /\ Trace(a) = <<"X">>
        /\ hist[a].rets = <<[op |-> "take", some |-> TRUE, val |-> Some(1)]>>
        /\ cell = Some(1)

\* C13: construction is lazy and free of side effects.  access() and
\* maybe_access() yield an accessor in the Unknown state and leave the slot,
\* the borrows and every observation as they were; an accessor on which no
\* get()/take() was called has invoked no callback and holds no borrow, and
\* discarding it changes neither the slot nor any borrow.
C13_LazyConstruction ==
    /\ [](\A a \in Acc :
            (acc[a].st = "Unknown" /\ running # a) =>
                hist[a] = NoHistory /\ rd[a] = 0 /\ wr # a)
    /\ [][\A a \in Acc :
            /\ (acc[a].st = "absent" /\ acc'[a].st # "absent") =>
                /\ acc'[a] \in {CacheStateUnknown("total"), CacheStateUnknown("partial")}
                /\ hist[a] = NoHistory
                /\ <<cell, rd, wr, hist, trap, ub>>' = <<cell, rd, wr, hist, trap, ub>>
            /\ (acc[a].st = "Unknown" /\ acc'[a].st = "absent") =>
                /\ hist[a] = NoHistory
                /\ hist'[a] = NoHistory
                /\ rd[a] = 0
                /\ <<cell, rd, wr, trap, ub>>' = <<cell, rd, wr, trap, ub>>]_vars

\* A total and a partial accessor have been constructed over a shared slot
\* holding 1, and neither has been used.
C13_Witness ==
    /\ kind = "refcell"
    /\ cell = Some(1)
    /\ Idle
    /\ \A a \in Acc : acc[a].st = "Unknown" /\ hist[a] = NoHistory
    /\ \E a \in Acc : acc[a].typ = "total"
    /\ \E a \in Acc : acc[a].typ = "partial"
    /\ Readers = 0

\* What take() returned is still alive with the caller.
TakenAlive(a) == kind = "refcell" /\ acc[a].st = "taken"

\* C14, as claimed: take() on a shared-slot accessor yields an owned T, so
\* once it has returned no shared borrow is held on behalf of that accessor
\* and no later accessor panics while the taken value is alive.
C14_TakeYieldsOwned ==
    (\E a \in Acc : TakenAlive(a)) =>
        /\ \A a \in Acc : TakenAlive(a) => rd[a] = 0
        /\ ~trap

\* C14, amended: take() on a shared-slot accessor yields the guard the
\* resolution acquired (a Ref on the slot's value), moved out of the accessor.
\* While the caller keeps it, one shared borrow is held on its behalf and it
\* reads the slot's value; an accessor that then has to borrow the slot
\* mutably panics.  When the caller drops it the borrow is released, and with
\* no shared borrow left a mutable borrow succeeds.  A partial accessor that
\* resolved to None yields no guard and holds no borrow.
C14_TakeYieldsGuard ==
    /\ [](\A a \in Acc :
            TakenAlive(a) =>
                /\ rd[a] = (IF acc[a].data = "Ref" THEN 1 ELSE 0)
                /\ acc[a].data = "Ref" =>
                    /\ cell # None
                    /\ cell = hist[a].rets[Len(hist[a].rets)].val)
    /\ [][/\ \A a \in Acc :
             /\ (TakenAlive(a) /\ acc'[a].st = "absent") => rd'[a] = 0
             /\ (/\ TakenAlive(a)
                 /\ acc[a].data = "Ref"
                 /\ running \in Acc \ {a}
                 /\ pc \in {"expire_borrow_mut", "fill_borrow_mut"}) => trap'
          /\ (/\ kind = "refcell"
              /\ pc \in {"expire_borrow_mut", "fill_borrow_mut"}
              /\ Readers = 0) => (~trap' /\ wr' = running)]_vars

\* take() returned a guard on 1 that the caller still holds, and a later
\* accessor whose predicate answered true panicked when it came to clear the
\* slot.
C14_Witness ==
    \E a, b \in Acc :
        /\ TakenAlive(a)
        /\ hist[a].rets[Len(hist[a].rets)] = [op |-> "take", some |-> TRUE, val |-> Some(1)]
        /\ rd[a] = 1
        /\ running = b
        /\ pc = "expire_borrow_mut"
        /\ XCalls(b) # <<>>
        /\ XCalls(b)[1].b
        /\ trap

\* C15: expire precedes fill and skips empty slots.  In every resolution the
\* predicate's invocation and the clearing come before the filler's invocation
\* and the storing; the predicate is only ever invoked on the value the slot
\* held when the resolution started, which the slot still holds at that
\* moment; a resolution that found a value has asked the predicate before it
\* invokes the filler; a resolution that found the slot empty never invokes
\* the predicate.
C15_ExpireBeforeFill ==
    \A a \in Acc :
        /\ \A i, j \in 1..Len(hist[a].log) :
            (hist[a].log[i].e \in {"X", "take"} /\ hist[a].log[j].e \in {"F", "store"})
                => i < j
        /\ \A i \in 1..Len(hist[a].log) :
            hist[a].log[i].e = "X" =>
                /\ i = 1
                /\ hist[a].log[i].v # None
                /\ hist[a].log[i].v = hist[a].pre[1]
                /\ hist[a].log[i].slot = hist[a].pre[1]
        /\ (PreSome(a) /\ FCalls(a) # <<>>) => Trace(a)[1] = "X" /\ Trace(a)[2] = "take"
        /\ hist[a].pre = <<None>> => XCalls(a) = <<>>
        /\ (running = a /\ pc = "fill" /\ PreSome(a)) => Len(XCalls(a)) = 1

\* A partial accessor over an exclusive slot holding 1: the predicate was asked
\* about 1 and answered true, the slot was cleared, and only then the filler
\* was invoked and returned 2.
C15_Witness ==
    \E a \in Acc :
        /\ kind = "mut"
        /\ acc[a].typ = "partial"
        /\ hist[a].pre = <<Some(1)>>
        /\ Trace(a) = <<"X", "take", "F", "store">>
        /\ hist[a].log[1].v = Some(1)
        /\ hist[a].log[3].v = Some(2)
        /\ hist[a].rets # <<>>

\* C16: borrow discipline of the shared slot.  The exclusive borrow never
\* coexists with a shared one, and only the running call holds it; each
\* accessor holds at most one shared borrow; the exclusive borrow taken to
\* clear or to store is released before the fill step's check and before the
\* final shared borrow is acquired; an accessor resolved to a handle holds
\* exactly one shared borrow and nobody then holds the exclusive one; an idle
\* accessor without a handle holds none.  The exclusive slot has no borrow
\* flag at all.
C16_BorrowDiscipline ==
    /\ ~(wr # 0 /\ Readers > 0)
    /\ wr \in {0, running}
    /\ wr # 0 => pc \in {"expire_take", "fill_store"}
    /\ pc \in {"fill", "fill_call", "yield", "yielded", "matched", "idle"} => wr = 0
    /\ \A a \in Acc :
        /\ rd[a] \in {0, 1}
        /\ (kind = "refcell" /\ acc[a].data = "Ref") => rd[a] = 1 /\ wr = 0
        /\ (acc[a].data # "Ref" /\ running # a) => rd[a] = 0
        /\ (running = a /\ rd[a] = 1) => pc \in {"expire_map", "yielded", "matched"}
    /\ kind = "mut" => wr = 0 /\ Readers = 0

\* A resolution on the shared slot that borrowed it exclusively twice, to clear
\* the expired value and to store the filler's, and returned a handle: one
\* shared borrow is left.
C16_Witness ==
    \E a \in Acc :
        /\ kind = "refcell"
        /\ acc[a].typ = "total"
        /\ Trace(a) = <<"X", "take", "F", "store">>
        /\ hist[a].rets # <<>>
        /\ acc[a].st = "Known"
        /\ Readers = 1
        /\ rd[a] = 1
        /\ wr = 0

\* The accessor's state is Known (take() consumes a Known accessor).
IsKnown(a) == acc[a].st \in {"Known", "taken"}

\* C17: the accessor's state is monotone.  unreachable_unchecked() is never
\* executed; an accessor is Known exactly when a resolution has completed on
\* it, the match after into_known always finds Known, and every get()/take()
\* that returned left the accessor Known.  An accessor is created Unknown,
\* becomes Known only from Unknown, never goes from Known to Unknown, and
\* keeps the handle it resolved to.
C17_MonotoneState ==
    /\ [](/\ ~ub
          /\ pc = "matched" => acc[running].st = "Known"
          /\ \A a \in Acc :
              /\ IsKnown(a) <=> hist[a].post # <<>>
              /\ hist[a].rets # <<>> => IsKnown(a)
              /\ acc[a].st = "Unknown" => acc[a].data = "unset")
    /\ [][\A a \in Acc :
            /\ IsKnown(a) => acc'[a].st # "Unknown"
            /\ acc'[a].st = "Unknown" => acc[a].st \in {"absent", "Unknown"}
            /\ acc'[a].st = "Known" => acc[a].st \in {"Unknown", "Known"}
            /\ (IsKnown(a) /\ IsKnown(a)') =>
                acc'[a].data = acc[a].data /\ acc'[a].typ = acc[a].typ]_vars

\* A partial accessor was resolved by get() and later consumed by take().
C17_Witness ==
    \E a \in Acc :
        /\ acc[a].typ = "partial"
        /\ acc[a].st = "taken"
        /\ Len(hist[a].rets) = 2
        /\ hist[a].rets[1].op = "get"
        /\ hist[a].rets[2].op = "take"
        /\ ~ub

\* C18: on the shared slot the filler runs outside any borrow.  When the
\* filler (total or partial) is about to be invoked, the call holds neither a
\* shared nor the exclusive borrow, so a borrow() made by the filler succeeds;
\* every filler invocation was made in that condition; the step that invokes
\* the filler raises no panic, and the exclusive borrow is acquired only after
\* it, for the storing.
C18_FillerOutsideBorrow ==
    /\ [](/\ (kind = "refcell" /\ pc = "fill_call") =>
              /\ rd[running] = 0
              /\ wr = 0
              /\ ~FillerPanics(TRUE)
          /\ \A a \in Acc : \A i \in 1..Len(hist[a].log) :
              hist[a].log[i].e = "F" =>
                  /\ hist[a].log[i].held = 0
                  /\ ~hist[a].log[i].excl
                  /\ (kind = "refcell" /\ i < Len(hist[a].log)) =>
                      /\ hist[a].log[i + 1].e = "store"
                      /\ hist[a].log[i + 1].excl
                      /\ hist[a].log[i + 1].held = 0)
    /\ [][pc = "fill_call" => (~trap' /\ pc' = "fill_borrow_mut" /\ wr' = 0)]_vars

\* The partial filler of a shared-slot accessor has just returned 2; nothing
\* panicked and the exclusive borrow is still to be acquired.
C18_Witness ==
    \E a \in Acc :
        /\ kind = "refcell"
        /\ acc[a].typ = "partial"
        /\ running = a
        /\ pc = "fill_borrow_mut"
        /\ tmp = Some(2)
        /\ Trace(a) = <<"X", "take", "F">>
        /\ hist[a].log[3].held = 0
        /\ ~trap
        /\ wr = 0

\* The filler of h (an accessor, or 0 for the one discarded last) returned None.
FilledNone(h) == FCalls(h) # <<>> /\ FCalls(h)[1].v = None

\* C19: absence is not cached across accessors.  A resolution whose filler
\* returned None leaves the slot empty; every accessor, total or partial, whose
\* resolution found the slot empty has invoked its own filler exactly once,
\* whatever other accessors remember; on the exclusive slot the successor of an
\* accessor that resolved to None finds the slot empty and invokes its filler.
C19_AbsenceNotCached ==
    /\ \A h \in {0} \cup Acc :
        (FilledNone(h) /\ hist[h].post # <<>>) => hist[h].post = <<None>>
    /\ \A a \in Acc :
        /\ (hist[a].pre = <<None>> /\ hist[a].post # <<>>) =>
            /\ Len(FCalls(a)) = 1
            /\ FCalls(a)[1].slot = None
        /\ (kind = "mut" /\ FilledNone(0) /\ hist[0].rets # <<>> /\ hist[a].post # <<>>) =>
            /\ hist[a].pre = <<None>>
            /\ Len(FCalls(a)) = 1

\* Two accessors over a shared slot that started empty: the first one's filler
\* returned None and it remembers None; the second one invoked its own filler,
\* which returned 1.
C19_Witness ==
    \E a, b \in Acc :
        /\ kind = "refcell"
        /\ acc[a].typ = "partial"
        /\ acc[a].st = "Known"
        /\ acc[a].data = "None"
        /\ Trace(a) = <<"F", "store">>
        /\ FilledNone(a)
        /\ hist[a].rets # <<>>
        /\ Trace(b) = <<"F", "store">>
        /\ FCalls(b)[1].v = Some(1)
        /\ hist[b].rets # <<>>
        /\ cell = Some(1)

\* A shared-slot partial accessor that resolved to None.
ResolvedNone(a) ==
    kind = "refcell" /\ acc[a].typ = "partial" /\ IsKnown(a) /\ acc[a].data = "None"

\* C20: a shared-slot partial accessor that resolved to None holds no borrow
\* and can go stale.  Such an accessor found or left the slot empty, holds no
\* shared borrow and has returned None from every call; a panic is only ever
\* raised against an accessor that holds a handle, so another accessor fills
\* the slot without panicking; and a get()/take() on it that returns while the
\* slot holds a value still returns None.
C20_StaleNone ==
    /\ [](/\ \A a \in Acc :
              ResolvedNone(a) =>
                  /\ rd[a] = 0
                  /\ hist[a].post = <<None>>
                  /\ \A i \in 1..Len(hist[a].rets) :
                      ~hist[a].rets[i].some /\ hist[a].rets[i].val = None
          /\ (trap /\ kind = "refcell") =>
              \E c \in Acc \ {running} : rd[c] = 1 /\ acc[c].data = "Ref")
    /\ [][\A a \in Acc :
            (ResolvedNone(a) /\ cell # None /\ hist'[a].rets # hist[a].rets
                /\ acc'[a].st # "absent") =>
                /\ ~hist'[a].rets[Len(hist'[a].rets)].some
                /\ hist'[a].rets[Len(hist'[a].rets)].val = None
                /\ cell' = cell
                /\ ~trap']_vars

\* The first accessor resolved to None; a second one then filled the slot
\* with 2 and holds a handle on it; the first one's calls return None.
C20_Witness ==
    \E a, b \in Acc :
        /\ ResolvedNone(a)
        /\ acc[a].st = "taken"
        /\ Len(hist[a].rets) = 2
        /\ hist[a].rets[2] = [op |-> "take", some |-> FALSE, val |-> None]
        /\ acc[b].typ = "total"
        /\ acc[b].st = "Known"
        /\ Trace(b) = <<"F", "store">>
        /\ cell = Some(2)
        /\ rd[b] = 1
        /\ ~trap
====
